---- MODULE Spec2Model ----
(***************************************************************************)
(* A model of rplugin/python3/far/sources/far_glob.py: the alternation     *)
(* expander parse_or, the rule normaliser proc, the ignore/exception split *)
(* exception_ignore, the ignore-file reader load_ignore_rules and the      *)
(* resolver far_glob.  Python strings are TLA+ strings; s[i] is written    *)
(* Char(s, i) with positions counted from 1.                               *)
(***************************************************************************)
EXTENDS Integers, Sequences, FiniteSets, TLC

VARIABLES
    pc,                     \* position in the function under execution
    input,                  \* the arguments of the outermost call
    result,                 \* the value returned and the exception raised
    rules_origin,           \* parse_or: the argument of the current call
    new_rules,              \* parse_or: the list built by the loop
    added_new_rule,         \* parse_or: the flag set by the loop
    depth,                  \* parse_or: number of recursive calls made
    rules,                  \* far_glob: the local of that name
    ignore_rules,           \* far_glob, load_ignore_rules: the local of that name
    exception_ignore_rules, \* far_glob: the local of that name
    files,                  \* far_glob: the local of that name
    ignore_files,           \* far_glob: the local of that name
    exception_ignore_files, \* far_glob: the local of that name
    fs,                     \* the regular files of the filesystem, by absolute path
    f                       \* load_ignore_rules: the lines of the file not yet read

parse_or_vars == <<rules_origin, new_rules, added_new_rule, depth>>

rule_vars == <<rules, ignore_rules, exception_ignore_rules>>

file_vars == <<files, ignore_files, exception_ignore_files>>

far_glob_vars == <<rule_vars, file_vars>>

vars == <<pc, input, result, parse_or_vars, far_glob_vars, fs, f>>

----------------------------------------------------------------------------
(* Bounds of the model.                                                    *)

\* parse_or: most tokens in all rules of one input list, most rules in it.
MaxTokens == 3
MaxRules == 2

\* proc: most tokens in all ignore rules of one call, most ignore rules in it.
ProcMaxTokens == 4
ProcMaxRules == 2

\* load_ignore_rules: most characters in all lines of a file, most lines in it.
LoadMaxChars == 4
LoadMaxLines == 2

\* far_glob: most include rules and most ignore rules of one call.
GlobMaxInclude == 1
GlobMaxIgnore == 2

----------------------------------------------------------------------------
(* Python string primitives.                                               *)

Char(s, i) == SubSeq(s, i, i)

StartsWith(s, p) == Len(s) >= Len(p) /\ SubSeq(s, 1, Len(p)) = p

EndsWith(s, p) == Len(s) >= Len(p) /\ SubSeq(s, Len(s) - Len(p) + 1, Len(s)) = p

\* s[k:] for k >= 0
From(s, k) == SubSeq(s, k + 1, Len(s))

\* s[-k:] for k > 0: the last k characters, the whole string when shorter
Last(s, k) == IF Len(s) <= k THEN s ELSE SubSeq(s, Len(s) - k + 1, Len(s))

Max(S) == CHOOSE x \in S : \A y \in S : y <= x

Min(S) == CHOOSE x \in S : \A y \in S : x <= y

RECURSIVE Concat(_)
Concat(ss) == IF ss = <<>> THEN <<>> ELSE Head(ss) \o Concat(Tail(ss))

RECURSIVE Join(_)
Join(ss) == IF ss = <<>> THEN "" ELSE Head(ss) \o Join(Tail(ss))

\* The characters the regular expression class \w matches, among the ASCII
\* characters: the letters, the digits and the underscore.
WordChars ==
    {"a", "b", "c", "d", "e", "f", "g", "h", "i", "j", "k", "l", "m", "n",
     "o", "p", "q", "r", "s", "t", "u", "v", "w", "x", "y", "z",
     "A", "B", "C", "D", "E", "F", "G", "H", "I", "J", "K", "L", "M", "N",
     "O", "P", "Q", "R", "S", "T", "U", "V", "W", "X", "Y", "Z", "_",
     "0", "1", "2", "3", "4", "5", "6", "7", "8", "9"}

\* sub in s
HasSubstring(s, sub) ==
    \E i \in 1..(Len(s) - Len(sub) + 1) : SubSeq(s, i, i + Len(sub) - 1) = sub

\* str.split(sep) for a one-character separator: the pieces between the
\* positions of the separators, in order
Split(s, sep) ==
    LET cuts == <<0>> \o SelectSeq([i \in 1..Len(s) |-> i], LAMBDA i : Char(s, i) = sep)
                      \o <<Len(s) + 1>>
    IN  [k \in 1..(Len(cuts) - 1) |-> SubSeq(s, cuts[k] + 1, cuts[k + 1] - 1)]

----------------------------------------------------------------------------
\* parse_or: the regular expression of line 19, which is <pre> (any text,
\* greedy), then <or> (a parenthesis, alternatives of word characters
\* separated by bars, a parenthesis), then <post> (any text, greedy).

\* After the "(" at position i come word characters and bars: the position of
\* the first character that is neither, one past the end when there is none.
GroupStop(s, i) ==
    CHOOSE j \in (i + 1)..(Len(s) + 1) :
        /\ j > Len(s) \/ Char(s, j) \notin WordChars \cup {"|"}
        /\ \A k \in (i + 1)..(j - 1) : Char(s, k) \in WordChars \cup {"|"}

\* The ")" stands at position e, and no alternative before it is empty.
GroupClosed(s, i, e) ==
    /\ e <= Len(s)
    /\ Char(s, e) = ")"
    /\ e > i + 1
    /\ Char(s, i + 1) # "|"
    /\ Char(s, e - 1) # "|"
    /\ ~HasSubstring(SubSeq(s, i + 1, e - 1), "||")

\* The group <or> matched at position i: the position of its ")", 0 if none.
GroupEndAt(s, i) ==
    IF i < 1 \/ i > Len(s) \/ Char(s, i) # "(" THEN 0
    ELSE IF GroupClosed(s, i, GroupStop(s, i)) THEN GroupStop(s, i)
    ELSE 0

\* The positions where a group <or> starts.
Groups(s) == {g \in 1..Len(s) : GroupEndAt(s, g) > 0}

\* The "." of <pre> and <post> matches every character but the line feed:
\* the position where the line that holds position p + 1 ends.
LineEnd(s, p) ==
    Min({Max({p, Len(s)})} \cup {i - 1 : i \in {j \in (p + 1)..Len(s) : Char(s, j) = "\n"}})

\* The number of characters before the line that holds position g.
LineStart(s, g) == Max({0} \cup {i \in 1..(g - 1) : Char(s, i) = "\n"})

\* The match that starts after p characters with <or> at position g, its ")"
\* at position e: <post> runs to the end of the line.
MatchAt(rule, p, g, e) ==
    [matched |-> TRUE,
     pre |-> SubSeq(rule, p + 1, g - 1),
     or |-> SubSeq(rule, g, e),
     post |-> SubSeq(rule, e + 1, LineEnd(rule, e))]

\* <or> at position g
MatchGroup(rule, p, g) == MatchAt(rule, p, g, GroupEndAt(rule, g))

\* <pre> is greedy: started after p characters, it ends before the last group
\* of the line.
MatchLine(rule, p) ==
    MatchGroup(rule, p, Max({g \in Groups(rule) : g - 1 <= LineEnd(rule, p)}))

\* The lazy variant of <pre>: the shortest prefix, the first group.
RECURSIVE PreLengthLazy(_, _)
PreLengthLazy(s, k) ==
    IF k > Len(s) THEN -1
    ELSE IF GroupEndAt(s, k + 1) > 0 THEN k
    ELSE PreLengthLazy(s, k + 1)

SearchLazy(rule) ==
    IF PreLengthLazy(rule, 0) < 0
    THEN [matched |-> FALSE, pre |-> "", or |-> "", post |-> ""]
    ELSE MatchGroup(rule, 0, PreLengthLazy(rule, 0) + 1)

\* rgx.search(rule) tries the start positions from the left: the match starts
\* where the first line that holds a group starts.
Search(rule) ==
    IF Groups(rule) = {} THEN [matched |-> FALSE, pre |-> "", or |-> "", post |-> ""]
    ELSE MatchLine(rule, LineStart(rule, Min(Groups(rule))))

\* m.group('or')[1:-1].split('|')
Elts(m) == Split(SubSeq(m.or, 2, Len(m.or) - 1), "|")

\* The rules one rule contributes to new_rules in the loop of parse_or.
ExpandMatch(rule, m) ==
    IF m.matched
    THEN [i \in 1..Len(Elts(m)) |-> m.pre \o Elts(m)[i] \o m.post]
    ELSE <<rule>>

ExpandRule(rule) == ExpandMatch(rule, Search(rule))

\* The loop of parse_or: new_rules.
LoopRules(rs) == Concat([i \in 1..Len(rs) |-> ExpandRule(rs[i])])

\* A loop that resets the flag on every iteration: only the last rule counts.
LoopAddedLast(rs) == rs # <<>> /\ Search(rs[Len(rs)]).matched

\* The loop of parse_or: added_new_rule.
LoopAdded(rs) == \E i \in 1..Len(rs) : Search(rs[i]).matched

\* parse_or as a function: the recursion on the list the loop built.
RECURSIVE parse_or(_)
parse_or(rs) ==
    IF ~LoopAdded(rs) THEN LoopRules(rs) ELSE parse_or(LoopRules(rs))

----------------------------------------------------------------------------
(* Inputs of parse_or: lists of rules written with a few tokens.           *)

OrTokens == {".*", "(cpp|hpp)", ".", "(c|h)", "(", ")", "\n"}

\* The mark that ends a rule in a sequence of tokens.
EndOfRule == "<end>"

\* The list of rules a sequence of tokens and marks spells.
RECURSIVE Spelled(_)
Spelled(tokens) ==
    IF tokens = <<>> THEN <<"">>
    ELSE LET rest == Spelled(Tail(tokens)) IN
         IF Head(tokens) = EndOfRule THEN <<"">> \o rest
         ELSE <<Head(tokens) \o Head(rest)>> \o Tail(rest)

Marks(tokens) == Cardinality({i \in DOMAIN tokens : tokens[i] = EndOfRule})

\* the lists of at most k strings holding at most n tokens of T together
ListsOf(T, k, n) ==
    IF k = 0 THEN {<<>>}
    ELSE {<<>>} \cup
         {Spelled(tokens) :
            tokens \in {t \in UNION {[1..j -> T \cup {EndOfRule}] : j \in 0..(n + k - 1)} :
                            Marks(t) <= k - 1 /\ Len(t) - Marks(t) <= n}}

\* The example of the docstring of parse_or and of the specification.
OrExample == <<".*(cpp|hpp).(c|h)">>
OrDocExample == <<".*(cpp|hpp|py).(c|h|hs).*">>

OrInputs == ListsOf(OrTokens, MaxRules, MaxTokens) \cup {OrExample, OrDocExample}

----------------------------------------------------------------------------
(* parse_or step by step: one loop, then the return or the recursive call. *)

InitParseOr ==
    /\ input \in OrInputs
    /\ rules_origin = input
    /\ new_rules = <<>>
    /\ added_new_rule = FALSE
    /\ depth = 0
    /\ pc = "loop"
    /\ result = <<>>
    /\ rules = <<>>
    /\ ignore_rules = <<>>
    /\ exception_ignore_rules = <<>>
    /\ files = {}
    /\ ignore_files = {}
    /\ exception_ignore_files = {}
    /\ fs = {}
    /\ f = <<>>

\* lines 21-32
ParseOrLoop ==
    /\ pc = "loop"
    /\ new_rules' = LoopRules(rules_origin)
    /\ added_new_rule' = LoopAdded(rules_origin)
    /\ pc' = "test"
    /\ UNCHANGED <<input, rules_origin, depth, result, far_glob_vars, fs, f>>

\* lines 33-34
ParseOrReturn ==
    /\ pc = "test"
    /\ ~added_new_rule
    /\ result' = new_rules
    /\ pc' = "returned"
    /\ UNCHANGED <<input, parse_or_vars, far_glob_vars, fs, f>>

\* line 35
ParseOrRecurse ==
    /\ pc = "test"
    /\ added_new_rule
    /\ rules_origin' = new_rules
    /\ new_rules' = <<>>
    /\ added_new_rule' = FALSE
    /\ depth' = depth + 1
    /\ pc' = "loop"
    /\ UNCHANGED <<input, result, far_glob_vars, fs, f>>

NextParseOr == ParseOrLoop \/ ParseOrReturn \/ ParseOrRecurse

SpecParseOr == InitParseOr /\ [][NextParseOr]_vars

\* The interpreter runs a call to its end: a call that has not returned takes
\* its next step.  This is weak fairness of NextParseOr, written with the
\* states where a step is possible spelled out: those where pc # "returned".
SpecParseOrFair ==
    SpecParseOr /\ ([]<>(pc = "returned") \/ []<><<NextParseOr>>_vars)

----------------------------------------------------------------------------
(* What the claims about parse_or speak of, defined on the text of a rule. *)

\* The positions where an alternation group starts.
GroupStarts(rule) == {i \in 1..Len(rule) : GroupEndAt(rule, i) > 0}

HasGroup(rule) == GroupStarts(rule) # {}

\* The alternatives of the group that starts at position i.
AltsAt(rule, i) == Split(SubSeq(rule, i + 1, GroupEndAt(rule, i) - 1), "|")

\* The rule with the group at position i replaced by each alternative in turn.
ResolveAt(rule, i) ==
    [j \in 1..Len(AltsAt(rule, i)) |->
        SubSeq(rule, 1, i - 1) \o AltsAt(rule, i)[j] \o From(rule, GroupEndAt(rule, i))]

\* The group starts of a rule in increasing order.
RECURSIVE Ascending(_)
Ascending(S) == IF S = {} THEN <<>> ELSE <<Min(S)>> \o Ascending(S \ {Min(S)})

RECURSIVE Product(_)
Product(ns) == IF ns = <<>> THEN 1 ELSE Head(ns) * Product(Tail(ns))

\* One rule per choice of an alternative in each group of the rule, the text
\* outside the groups kept, the choice in the leftmost group varying fastest.
CrossProduct(rule) ==
    LET gs == Ascending(GroupStarts(rule))
        k == Len(gs)
        n == [j \in 1..k |-> Len(AltsAt(rule, gs[j]))]
        \* the text between group j and group j + 1 (j = 0: before the first)
        lit(j) == SubSeq(rule,
                         IF j = 0 THEN 1 ELSE GroupEndAt(rule, gs[j]) + 1,
                         IF j = k THEN Len(rule) ELSE gs[j + 1] - 1)
        choice(idx, j) == ((idx \div Product(SubSeq(n, 1, j - 1))) % n[j]) + 1
        piece(idx, j) == AltsAt(rule, gs[j])[choice(idx, j)] \o lit(j)
    IN  [x \in 1..Product(n) |->
            lit(0) \o Join([j \in 1..k |-> piece(x - 1, j)])]

\* No choice of alternatives leaves a group behind: the groups are not nested
\* in parentheses that would make a group of the chosen alternative.
NonNested(rule) ==
    \A x \in 1..Len(CrossProduct(rule)) : ~HasGroup(CrossProduct(rule)[x])

Count(rule, c) == Cardinality({i \in 1..Len(rule) : Char(rule, i) = c})

\* A rule of the pattern language is written on one line.
OneLine(rule) == Count(rule, "\n") = 0

\* What is left to expand: the most opening parentheses in a rule with a group.
Measure(rs) ==
    Max({0} \cup {Count(rs[i], "(") : i \in {j \in 1..Len(rs) : HasGroup(rs[j])}})

ResolveEach(rs, which(_)) ==
    Concat([i \in 1..Len(rs) |->
        IF HasGroup(rs[i]) THEN ResolveAt(rs[i], which(GroupStarts(rs[i])))
        ELSE <<rs[i]>>])

----------------------------------------------------------------------------
(* Claims about parse_or.                                                  *)

\* C4: when parse_or returns, every input rule, written on one line with
\* groups that are not nested, has been replaced, in place, by one rule per
\* choice of an alternative in each of its groups, the text outside the groups
\* kept and the choice in the leftmost group varying fastest; the example of
\* the specification gives .*cpp.c, .*hpp.c, .*cpp.h, .*hpp.h.
C4_CrossProduct ==
    pc = "returned" =>
        /\ (\A i \in 1..Len(input) : OneLine(input[i]) /\ NonNested(input[i])) =>
                result = Concat([i \in 1..Len(input) |-> CrossProduct(input[i])])
        /\ input = OrExample => result = <<".*cpp.c", ".*hpp.c", ".*cpp.h", ".*hpp.h">>

C4_Witness ==
    /\ pc = "returned"
    /\ input = OrExample
    /\ depth = 2
    /\ Len(result) = 4

\* C5: parse_or terminates and returns rules without alternation groups.
\* Every call returns; until then it is at its loop or at its test, from where
\* a step is always possible; a pass that expanded a rule leaves strictly less
\* to expand than it was given, so that the number of recursive calls never
\* exceeds what the input holds to expand; the empty list is returned as the
\* empty list by the first call; and no rule returned holds a group.
C5_Terminates ==
    /\ <>(pc = "returned")
    /\ [](pc \in {"loop", "test", "returned"} /\ added_new_rule \in BOOLEAN)
    /\ [](pc = "test" /\ added_new_rule => Measure(new_rules) < Measure(rules_origin))
    /\ [](depth + Measure(rules_origin) <= Measure(input))
    /\ [](pc = "returned" => \A i \in 1..Len(result) : ~HasGroup(result[i]))
    /\ [](pc = "returned" /\ input = <<>> => result = <<>> /\ depth = 0)

C5_Witness ==
    /\ pc = "returned"
    /\ depth >= 2
    /\ Len(input) = 2
    /\ HasGroup(input[1])
    /\ ~HasGroup(input[2])

\* C9 as stated: the loop of each pass resolves, in every rule holding a
\* group, the first (leftmost) group and no other; after the first pass on
\* .*(cpp|hpp).(c|h) the working set is .*cpp.(c|h), .*hpp.(c|h).
C9_LeftmostFirst ==
    pc = "test" =>
        /\ new_rules = ResolveEach(rules_origin, Min)
        /\ input = OrExample /\ depth = 0 =>
                new_rules = <<".*cpp.(c|h)", ".*hpp.(c|h)">>

\* C9 as amended: the loop of each pass resolves, in every rule holding a
\* group, the last (rightmost) group and no other, the rules being written on
\* one line each; after the first pass on .*(cpp|hpp).(c|h) the working set is
\* .*(cpp|hpp).c, .*(cpp|hpp).h.
C9_RightmostFirst ==
    pc = "test" =>
        /\ (\A i \in 1..Len(rules_origin) : OneLine(rules_origin[i])) =>
                new_rules = ResolveEach(rules_origin, Max)
        /\ input = OrExample /\ depth = 0 =>
                new_rules = <<".*(cpp|hpp).c", ".*(cpp|hpp).h">>

C9_Witness ==
    /\ pc = "test"
    /\ input = OrExample
    /\ depth = 0
    /\ Cardinality(GroupStarts(rules_origin[1])) = 2
    /\ Len(new_rules) = 2

----------------------------------------------------------------------------
(* proc and exception_ignore.  A call returns a value or raises: the       *)
(* outcome is a record, err naming the exception ("" when none).           *)

Ok(v) == [err |-> "", val |-> v]

Raise(e) == [err |-> e, val |-> <<>>]

\* lines 56-61, for a rule that is not empty
TailRewrite(rule) ==
    IF Last(rule, 1) = "/" THEN rule \o "**/*"
    ELSE IF Last(rule, 3) = "/**" THEN rule \o "/*"
    ELSE IF Last(rule, 4) = "/**/" THEN rule \o "*"
    ELSE rule

\* lines 63-71 with the two appends of the else branch exchanged
HeadRewriteSwapped(rule) ==
    IF Char(rule, 1) = "/"
    THEN IF From(rule, 1) # "" THEN <<From(rule, 1)>> ELSE <<>>
    ELSE <<"**/" \o rule, "**/" \o rule \o "/**/*">>

\* lines 63-71: the globs one tail-rewritten rule adds to the list
HeadRewrite(rule) ==
    IF Char(rule, 1) = "/"
    THEN IF From(rule, 1) # "" THEN <<From(rule, 1)>> ELSE <<>>
    ELSE <<"**/" \o rule \o "/**/*">> \o
         (IF "**/" \o rule # "" THEN <<"**/" \o rule>> ELSE <<>>)

\* lines 51-72: rule[-1] raises IndexError on the empty rule
proc(rules_in) ==
    LET expanded == parse_or(rules_in) IN
    IF \E i \in 1..Len(expanded) : expanded[i] = ""
    THEN Raise("IndexError")
    ELSE Ok(Concat([i \in 1..Len(expanded) |-> HeadRewrite(TailRewrite(expanded[i]))]))

\* line 78
IsException(rule) == Char(rule, 1) = "!"

\* line 81: the rules appended to ignore_rules, in their order
RECURSIVE PlainRules(_)
PlainRules(list) ==
    IF list = <<>> THEN <<>>
    ELSE (IF IsException(Head(list)) THEN <<>> ELSE <<Head(list)>>) \o PlainRules(Tail(list))

\* line 79: the rules appended to exception_ignore_rules, in their order
RECURSIVE ExceptionRules(_)
ExceptionRules(list) ==
    IF list = <<>> THEN <<>>
    ELSE (IF IsException(Head(list)) THEN <<From(Head(list), 1)>> ELSE <<>>)
         \o ExceptionRules(Tail(list))

\* lines 74-82: rule[0] raises IndexError on the empty rule
exception_ignore(ignore_rules_origin) ==
    IF \E i \in 1..Len(ignore_rules_origin) : ignore_rules_origin[i] = ""
    THEN Raise("IndexError")
    ELSE Ok(<<PlainRules(ignore_rules_origin), ExceptionRules(ignore_rules_origin)>>)

----------------------------------------------------------------------------
(* far_glob, lines 148-152: the split of the ignore rules and the three    *)
(* calls of proc.                                                          *)

ProcTokens == {"/", "/**", "x", "!", "(a|b)"}

\* The rules of the docstrings and of the specification's examples.
ProcExamples ==
    {<<"/xx/**/">>, <<"/xx/">>, <<"/xx/**">>, <<"xx/">>, <<"xx/**">>, <<"xx/**/">>,
     <<"/xx.sh">>, <<"*.txt">>, <<"/">>, <<"*">>, <<"**">>, <<"/(a|b)/", "x.(c|h)">>}

ProcInputs ==
    {[root |-> "/r", rules |-> r, ignore_rules |-> <<>>] : r \in ProcExamples} \cup
    {[root |-> "/r", rules |-> <<>>, ignore_rules |-> l] :
        l \in ListsOf(ProcTokens, ProcMaxRules, ProcMaxTokens) \cup {<<"sub/", "!sub/b.txt">>}}

InitFarGlob(inputs, trees) ==
    /\ input \in inputs
    /\ fs \in trees
    /\ rules = input.rules
    /\ ignore_rules = input.ignore_rules
    /\ exception_ignore_rules = <<>>
    /\ files = {}
    /\ ignore_files = {}
    /\ exception_ignore_files = {}
    /\ f = <<>>
    /\ pc = "split"
    /\ result = Ok(<<>>)
    /\ rules_origin = <<>>
    /\ new_rules = <<>>
    /\ added_new_rule = FALSE
    /\ depth = 0

\* an exception leaves far_glob
Raised(outcome) ==
    /\ pc' = "raised"
    /\ result' = outcome
    /\ UNCHANGED <<input, parse_or_vars, far_glob_vars, fs, f>>

\* line 148
ExceptionIgnore ==
    /\ pc = "split"
    /\ LET r == exception_ignore(ignore_rules) IN
        IF r.err # "" THEN Raised(r)
        ELSE /\ ignore_rules' = r.val[1]
             /\ exception_ignore_rules' = r.val[2]
             /\ pc' = "proc_rules"
             /\ UNCHANGED <<input, result, parse_or_vars, rules, file_vars, fs, f>>

\* line 150
ProcRules ==
    /\ pc = "proc_rules"
    /\ LET r == proc(rules) IN
        IF r.err # "" THEN Raised(r)
        ELSE /\ rules' = r.val
             /\ pc' = "proc_ignore"
             /\ UNCHANGED <<input, result, parse_or_vars, ignore_rules, exception_ignore_rules,
                          file_vars, fs, f>>

\* line 151
ProcIgnoreRules ==
    /\ pc = "proc_ignore"
    /\ LET r == proc(ignore_rules) IN
        IF r.err # "" THEN Raised(r)
        ELSE /\ ignore_rules' = r.val
             /\ pc' = "proc_exception"
             /\ UNCHANGED <<input, result, parse_or_vars, rules, exception_ignore_rules,
                          file_vars, fs, f>>

\* line 152
ProcExceptionRules ==
    /\ pc = "proc_exception"
    /\ LET r == proc(exception_ignore_rules) IN
        IF r.err # "" THEN Raised(r)
        ELSE /\ exception_ignore_rules' = r.val
             /\ pc' = "glob_rules"
             /\ UNCHANGED <<input, result, parse_or_vars, rules, ignore_rules, file_vars, fs, f>>

NextProc == ExceptionIgnore \/ ProcRules \/ ProcIgnoreRules \/ ProcExceptionRules

SpecProc == InitFarGlob(ProcInputs, {{}}) /\ [][NextProc]_vars

----------------------------------------------------------------------------
(* glob_rules: pathlib's expanduser, glob and is_file on the filesystem.   *)

\* The environment: the home directory HOME names, the home directories of
\* the password database, and the working directory.
Home == "/home/u"

Passwd == [name \in {"root"} |-> "/root"]

Cwd == "/tmp"

\* The limits of the kernel: the longest name of an entry, and the length a
\* path handed to it has to stay below.  A name or a path beyond them makes
\* stat, scandir and open fail with ENAMETOOLONG, which pathlib and open raise
\* as OSError.  The recursion limit of the interpreter, which a pattern of
\* about a thousand parts exceeds, is not part of the model.
NameMax == 255

PathMax == 4096

\* The directories that exist whatever regular files there are.
BaseDirs == {"/", "/home", "/home/u", "/root", "/tmp"}

\* The printable ASCII characters in the order of their code points, but for
\* the backquote.
CodePoints ==
    " !\"#$%&'()*+,-./0123456789:;<=>?@ABCDEFGHIJKLMNOPQRSTUVWXYZ[\\]^_abcdefghijklmnopqrstuvwxyz{|}~"

Ord(c) == CHOOSE i \in 1..Len(CodePoints) : Char(CodePoints, i) = c

\* sep.join(parts)
RECURSIVE JoinWith(_, _)
JoinWith(parts, sep) ==
    IF parts = <<>> THEN ""
    ELSE IF Len(parts) = 1 THEN Head(parts)
    ELSE JoinWith(SubSeq(parts, 1, Len(parts) \div 2), sep) \o sep
         \o JoinWith(SubSeq(parts, Len(parts) \div 2 + 1, Len(parts)), sep)

\* pathlib's parse_parts: the parts of a path or pattern after its root, the
\* empty parts and the parts "." dropped.
DropEmpty(parts) == SelectSeq(parts, LAMBDA part : part \notin {"", "."})

Parts(path) == DropEmpty(Split(path, "/"))

\* pathlib's splitroot: "/" for a path that starts with slashes, "//" when
\* they are exactly two, "" for a relative path.
PathRoot(path) ==
    IF ~StartsWith(path, "/") THEN ""
    ELSE IF StartsWith(path, "//") /\ ~StartsWith(path, "///") THEN "//"
    ELSE "/"

\* str() of the path with that root and those parts
PathStr(root, parts) ==
    IF root = "" /\ parts = <<>> THEN "." ELSE root \o JoinWith(parts, "/")

\* os.path.expanduser of a path that starts with "~" and holds no separator
UserHome(part) ==
    IF part = "~" THEN Home
    ELSE IF From(part, 1) \in DOMAIN Passwd THEN Passwd[From(part, 1)]
    ELSE part

\* os.path.expanduser
OsExpandUser(path) ==
    LET first == Head(Split(path, "/")) IN
    IF ~StartsWith(path, "~") \/ StartsWith(UserHome(first), "~") THEN path
    ELSE UserHome(first) \o From(path, Len(first))

\* pathlib.Path(root).expanduser(), as str() gives it
ExpandUser(root) ==
    LET parts == Parts(root) IN
    IF PathRoot(root) = "" /\ parts # <<>> /\ StartsWith(Head(parts), "~")
    THEN IF StartsWith(UserHome(Head(parts)), "~") THEN Raise("RuntimeError")
         ELSE Ok(PathStr(PathRoot(UserHome(Head(parts))),
                         Parts(UserHome(Head(parts))) \o Tail(parts)))
    ELSE Ok(PathStr(PathRoot(root), parts))

\* The filesystem: tree is the set of its regular files, by absolute path in
\* normal form; its directories are those that hold them and BaseDirs.
Under(dir) == IF dir = "/" THEN "/" ELSE dir \o "/"

IsDir(loc, tree) ==
    /\ loc # ""
    /\ loc \in BaseDirs \/ \E file \in tree : StartsWith(file, Under(loc))

Exists(loc, tree) == IsDir(loc, tree) \/ loc \in tree

\* The directory that holds loc.
Parent(loc) ==
    LET slashes == {i \in 2..Len(loc) : Char(loc, i) = "/"} IN
    IF slashes = {} THEN "/" ELSE SubSeq(loc, 1, Max(slashes) - 1)

\* The place the name stands for in the directory loc.
Step(loc, name) == IF name = ".." THEN Parent(loc) ELSE Under(loc) \o name

\* The names of a path as the kernel follows them: the empty ones skipped,
\* "." kept, and a "." for a separator that ends the path.
DropBlank(parts) == SelectSeq(parts, LAMBDA part : part # "")

Components(path) ==
    DropBlank(Split(path, "/")) \o (IF Last(path, 1) = "/" THEN <<".">> ELSE <<>>)

\* The errors of the kernel.
Errnos == {"ENOENT", "ENOTDIR", "ENAMETOOLONG"}

\* The kernel following names from the place loc: the place reached, or the
\* error that stops it.  A list of several names is followed half by half.
RECURSIVE Lookup(_, _, _)
Lookup(loc, names, tree) ==
    IF loc \in Errnos THEN loc
    ELSE IF ~Exists(loc, tree) THEN "ENOENT"
    ELSE IF names = <<>> THEN loc
    ELSE IF Len(names) > 1
         THEN Lookup(Lookup(loc, SubSeq(names, 1, Len(names) \div 2), tree),
                     SubSeq(names, Len(names) \div 2 + 1, Len(names)), tree)
    ELSE IF loc \in tree THEN "ENOTDIR"
    ELSE IF Len(names[1]) > NameMax THEN "ENAMETOOLONG"
    ELSE Lookup(IF names[1] = "." THEN loc ELSE Step(loc, names[1]), <<>>, tree)

\* The place a path stands for, or the error of the kernel.
Locate(path, tree) ==
    IF path = "" THEN "ENOENT"
    ELSE IF Len(path) >= PathMax THEN "ENAMETOOLONG"
    ELSE Lookup(IF StartsWith(path, "/") THEN "/" ELSE Cwd, Components(path), tree)

\* os.scandir: the names of the entries of the directory loc
Names(loc, tree) ==
    {Head(Split(From(file, Len(Under(loc))), "/")) :
        file \in {x \in tree \cup BaseDirs : StartsWith(x, Under(loc)) /\ x # Under(loc)}}

\* The directories of the filesystem.
Dirs(tree) ==
    BaseDirs \cup UNION {{SubSeq(file, 1, i - 1) :
                            i \in {j \in 2..Len(file) : Char(file, j) = "/"}} :
                         file \in tree}

\* The directories below the directory loc, itself included.
DirsUnder(loc, tree) ==
    {d \in Dirs(tree) : d = loc \/ StartsWith(d, Under(loc))}

\* _make_child_relpath and str(): the path of an entry of the path lit
ChildPath(lit, name) ==
    IF lit = "." THEN name
    ELSE IF lit \in {"/", "//"} THEN lit \o name
    ELSE lit \o "/" \o name

----------------------------------------------------------------------------
(* fnmatch.translate: one part of a pattern matched against one name.      *)

\* The position of the "]" that closes the class opened before position i,
\* a "!" and then a "]" met first being part of the class; 0 without one.
NextBracket(pat, j) ==
    LET closes == {i \in j..Len(pat) : Char(pat, i) = "]"} IN
    IF closes = {} THEN 0 ELSE Min(closes)

ClassEnd(pat, i) ==
    LET j1 == IF i <= Len(pat) /\ Char(pat, i) = "!" THEN i + 1 ELSE i
        j2 == IF j1 <= Len(pat) /\ Char(pat, j1) = "]" THEN j1 + 1 ELSE j1
    IN  NextBracket(pat, j2)

\* pat.find('-', k, j) on the text of a class: the first "-" from position k
FindHyphen(stuff, k) ==
    LET hyphens == {i \in k..Len(stuff) : Char(stuff, i) = "-"} IN
    IF hyphens = {} THEN 0 ELSE Min(hyphens)

\* The chunks the text of a class is cut into at the "-" of its ranges.
RECURSIVE ChunksFrom(_, _, _)
ChunksFrom(stuff, i, k) ==
    LET h == FindHyphen(stuff, k) IN
    IF h = 0 THEN <<SubSeq(stuff, i, Len(stuff))>>
    ELSE <<SubSeq(stuff, i, h - 1)>> \o ChunksFrom(stuff, h + 1, h + 3)

\* A last chunk that is empty leaves its "-" to the chunk before it.
Chunks(stuff) ==
    LET cs == ChunksFrom(stuff, 1, IF Char(stuff, 1) = "!" THEN 3 ELSE 2) IN
    IF cs[Len(cs)] # "" THEN cs
    ELSE SubSeq(cs, 1, Len(cs) - 2) \o <<cs[Len(cs) - 1] \o "-">>

\* The ranges that are empty removed, from the last to the first: the chunks
\* not yet examined, and those already kept.
RECURSIVE RemoveEmptyRanges(_, _)
RemoveEmptyRanges(cs, kept) ==
    IF Len(cs) <= 1 THEN cs \o kept
    ELSE LET n == Len(cs) IN
         IF Ord(Char(cs[n - 1], Len(cs[n - 1]))) > Ord(Char(cs[n], 1))
         THEN RemoveEmptyRanges(
                  SubSeq(cs, 1, n - 2) \o
                      <<SubSeq(cs[n - 1], 1, Len(cs[n - 1]) - 1) \o From(cs[n], 1)>>,
                  kept)
         ELSE RemoveEmptyRanges(SubSeq(cs, 1, n - 1), <<cs[n]>> \o kept)

\* The chunks of the text of a class; a text without "-" is one chunk.
ClassChunks(stuff) ==
    IF FindHyphen(stuff, 1) = 0 THEN <<stuff>> ELSE RemoveEmptyRanges(Chunks(stuff), <<>>)

\* The class of the regular expression built from the chunks: a "!" in front
\* negates it; the last character of a chunk and the first of the next are
\* the ends of a range; every other character stands for itself.
InClass(stuff, c) ==
    LET cs == ClassChunks(stuff)
        m == Len(cs)
        text == JoinWith(cs, "-")
        negated == StartsWith(text, "!")
        first(i) == IF i > 1 THEN 2 ELSE IF negated THEN 2 ELSE 1
        last(i) == IF i < m THEN Len(cs[i]) - 1 ELSE Len(cs[i])
        member == \/ \E i \in 1..m : \E j \in first(i)..last(i) : Char(cs[i], j) = c
                  \/ \E i \in 1..(m - 1) :
                        /\ Ord(Char(cs[i], Len(cs[i]))) <= Ord(c)
                        /\ Ord(c) <= Ord(Char(cs[i + 1], 1))
    IN  IF text = "" THEN FALSE
        ELSE IF text = "!" THEN TRUE
        ELSE IF negated THEN ~member
        ELSE member

\* The characters at the head of a pattern that stand for themselves.
LiteralRun(pat) ==
    Min({Len(pat)} \cup {i - 1 : i \in {j \in 1..Len(pat) : Char(pat, j) \in {"*", "?", "["}}})

\* The regular expression of a pattern part matched against a whole name:
\* "*" is any text, "?" any character, "[" opens a class when a "]" closes
\* it, every other character is itself; run is the number of characters at
\* the head of the pattern that stand for themselves.
RECURSIVE MatchFrom(_, _, _)
MatchFrom(pat, name, run) ==
    IF pat = "" THEN name = ""
    ELSE IF run > 0
         THEN /\ StartsWith(name, SubSeq(pat, 1, run))
              /\ MatchFrom(From(pat, run), From(name, run), 0)
    ELSE IF Char(pat, 1) = "*"
         THEN \E k \in 0..Len(name) :
                MatchFrom(From(pat, 1), From(name, k), LiteralRun(From(pat, 1)))
    ELSE IF name = "" THEN FALSE
    ELSE IF Char(pat, 1) = "?"
         THEN MatchFrom(From(pat, 1), From(name, 1), LiteralRun(From(pat, 1)))
    ELSE IF Char(pat, 1) = "[" /\ ClassEnd(pat, 2) > 0
         THEN /\ InClass(SubSeq(pat, 2, ClassEnd(pat, 2) - 1), Char(name, 1))
              /\ MatchFrom(From(pat, ClassEnd(pat, 2)), From(name, 1),
                           LiteralRun(From(pat, ClassEnd(pat, 2))))
    ELSE /\ Char(pat, 1) = Char(name, 1)
         /\ MatchFrom(From(pat, 1), From(name, 1), LiteralRun(From(pat, 1)))

MatchName(pat, name) == MatchFrom(pat, name, LiteralRun(pat))

----------------------------------------------------------------------------
(* Path.glob: the selectors of pathlib.                                    *)

\* _is_wildcard_pattern
IsWildcard(pat) ==
    HasSubstring(pat, "*") \/ HasSubstring(pat, "?") \/ HasSubstring(pat, "[")

\* The parts of a pattern handed to the selectors: a pattern that ends with
\* the separator gets an empty last part.
PatternParts(pattern) ==
    Parts(pattern) \o (IF Last(pattern, 1) = "/" THEN <<"">> ELSE <<>>)

\* What the selectors yield when the kernel refuses a name or a path.
Refused == <<"", "ENAMETOOLONG">>

\* The path of the directory d below the directory loc, reached as lit.
Below(lit, loc, d) ==
    IF d = loc THEN lit ELSE ChildPath(lit, From(d, Len(Under(loc))))

\* The paths the selectors of the pattern parts yield from the directory at
\* loc, reached as the path lit: each with the place it stands for.  The
\* precise selector asks the kernel for the entry it names, the two others
\* list the directory.
RECURSIVE Select(_, _, _, _)
Select(pats, lit, loc, tree) ==
    IF pats = <<>> \/ Head(pats) = "" THEN {<<lit, loc>>}
    ELSE IF Head(pats) = "**"
         THEN UNION {IF Len(Below(lit, loc, d)) >= PathMax THEN {Refused}
                     ELSE Select(Tail(pats), Below(lit, loc, d), d, tree) :
                        d \in DirsUnder(loc, tree)}
    ELSE IF IsWildcard(Head(pats))
         THEN IF Len(lit) >= PathMax THEN {Refused}
              ELSE UNION {Select(Tail(pats), ChildPath(lit, name), Step(loc, name), tree) :
                            name \in {n \in Names(loc, tree) :
                                        /\ Tail(pats) # <<>> => IsDir(Step(loc, n), tree)
                                        /\ MatchName(Head(pats), n)}}
    ELSE IF Len(ChildPath(lit, Head(pats))) >= PathMax \/ Len(Head(pats)) > NameMax
         THEN {Refused}
    ELSE IF IF Tail(pats) # <<>> THEN IsDir(Step(loc, Head(pats)), tree)
            ELSE Exists(Step(loc, Head(pats)), tree)
         THEN Select(Tail(pats), ChildPath(lit, Head(pats)), Step(loc, Head(pats)), tree)
    ELSE {}

\* The exception the selectors of a pattern raise when they are built from
\* its parts, "" when they raise none.
SelectorRaises(pattern, pats) ==
    IF pattern = "" THEN "ValueError"
    ELSE IF PathRoot(pattern) # "" THEN "NotImplementedError"
    ELSE IF pats = <<>> THEN "IndexError"
    ELSE IF \E i \in 1..Len(pats) : pats[i] # "**" /\ HasSubstring(pats[i], "**")
         THEN "ValueError"
    ELSE IF Head(pats) = "" THEN "AttributeError"
    ELSE ""

\* is_file on the paths the selectors yield: the regular files among them,
\* or OSError when the kernel refused a path.
RegularFiles(yielded, tree) ==
    IF Refused \in yielded \/ \E y \in yielded : Len(y[1]) >= PathMax
    THEN Raise("OSError")
    ELSE Ok({found[1] : found \in {y \in yielded : y[2] \in tree}})

\* root.glob with the selectors built: error is their exception, at the
\* place of the root.  A root that is no directory yields nothing.
GlobAt(root, pats, error, at, tree) ==
    IF error # "" THEN Raise(error)
    ELSE IF at = "ENAMETOOLONG" THEN Raise("OSError")
    ELSE IF ~IsDir(at, tree) THEN Ok({})
    ELSE RegularFiles(Select(pats, root, at, tree), tree)

\* The comprehension of line 90 for one pattern, root being the path
\* expanduser gave: the regular files among the paths root.glob(pattern)
\* yields, or the exception raised: that of the selectors, or OSError when
\* the kernel refuses the root, a path the selectors ask for or a path
\* is_file asks for.
GlobOutcome(root, pattern, tree) ==
    GlobAt(root, PatternParts(pattern),
           SelectorRaises(pattern, PatternParts(pattern)), Locate(root, tree), tree)

\* The exception root.glob(pattern), filtered by is_file, raises; "" when none.
GlobRaises(root, pattern, tree) == GlobOutcome(root, pattern, tree).err

\* The regular files root.glob(pattern) yields.
Glob(root, pattern, tree) == GlobOutcome(root, pattern, tree).val

\* The outcomes of the patterns put together: the exception of the first
\* pattern that raises one, ValueError turned into GlobError by line 91;
\* otherwise the set of the files found.
Collect(found) ==
    LET bad == {i \in DOMAIN found : found[i].err # ""} IN
    IF bad = {} THEN Ok(UNION {found[i].val : i \in DOMAIN found})
    ELSE IF found[Min(bad)].err = "ValueError" THEN Raise("GlobError")
    ELSE Raise(found[Min(bad)].err)

\* lines 89-92, home being what expanduser gave at line 88
GlobFrom(home, patterns, tree) ==
    IF home.err # "" THEN Raise(home.err)
    ELSE Collect([i \in 1..Len(patterns) |-> GlobOutcome(home.val, patterns[i], tree)])

\* lines 87-93
glob_rules(root, patterns, tree) == GlobFrom(ExpandUser(root), patterns, tree)

----------------------------------------------------------------------------
(* far_glob, lines 158-164: the filter, relative_to and sorted.            *)

\* a < b for Python strings
StrLess(a, b) ==
    LET differ == {i \in 1..Min({Len(a), Len(b)}) : Char(a, i) # Char(b, i)} IN
    IF differ = {} THEN Len(a) < Len(b)
    ELSE Ord(Char(a, Min(differ))) < Ord(Char(b, Min(differ)))

\* The strings of a set listed in the order a traversal of the set may give.
RECURSIVE Listed(_)
Listed(S) ==
    IF S = {} THEN <<>>
    ELSE LET m == CHOOSE x \in S : \A y \in S \ {x} : StrLess(y, x)
         IN  <<m>> \o Listed(S \ {m})

\* line 164: sorted(files)
RECURSIVE Sorted(_)
Sorted(S) ==
    IF S = {} THEN <<>>
    ELSE LET m == CHOOSE x \in S : \A y \in S \ {x} : StrLess(x, y)
         IN  <<m>> \o Sorted(S \ {m})

\* relative_to compares the root and the parts of the two paths.
AbsParts(path) ==
    IF PathRoot(path) = "" THEN Parts(path) ELSE <<"", PathRoot(path)>> \o Parts(path)

\* line 159: str(f.relative_to(root)), root being the argument of far_glob as
\* it was given; ValueError when f is not below it.
RelativeTo(file, root) ==
    LET abs_parts == AbsParts(file)
        to_abs_parts == AbsParts(root)
        n == Len(to_abs_parts)
    IN  IF IF n = 0 THEN PathRoot(file) # ""
           ELSE Len(abs_parts) < n \/ SubSeq(abs_parts, 1, n) # to_abs_parts
        THEN Raise("ValueError")
        ELSE Ok(PathStr("", SubSeq(abs_parts, n + 1, Len(abs_parts))))

\* line 161, with the exception test dropped: every ignored file is removed
SurvivesNoException(file, ignored, excepted) == ~(file \in ignored)

\* line 161: the filter of the comprehension
Survives(file, ignored, excepted) == ~(file \in ignored /\ file \notin excepted)

\* lines 158-164
Resolve(root, found, ignored, excepted) ==
    LET kept == {file \in found : Survives(file, ignored, excepted)} IN
    IF \E file \in kept : RelativeTo(file, root).err # ""
    THEN Raise("ValueError")
    ELSE Ok(Sorted({RelativeTo(file, root).val : file \in kept}))

\* lines 116-164: far_glob as a function of its arguments and the filesystem
far_glob(root, rs, irs, tree) ==
    LET split == exception_ignore(irs)
        r1 == proc(rs)
        r2 == proc(split.val[1])
        r3 == proc(split.val[2])
        g1 == glob_rules(root, r1.val, tree)
        g2 == glob_rules(root, r2.val, tree)
        g3 == glob_rules(root, r3.val, tree)
    IN  IF split.err # "" THEN split
        ELSE IF r1.err # "" THEN r1
        ELSE IF r2.err # "" THEN r2
        ELSE IF r3.err # "" THEN r3
        ELSE IF g1.err # "" THEN Raise(g1.err)
        ELSE IF g2.err # "" THEN Raise(g2.err)
        ELSE IF g3.err # "" THEN Raise(g3.err)
        ELSE Resolve(root, g1.val, g2.val, g3.val)

\* line 154
GlobRules ==
    /\ pc = "glob_rules"
    /\ LET r == glob_rules(input.root, rules, fs) IN
        IF r.err # "" THEN Raised(Raise(r.err))
        ELSE /\ files' = r.val
             /\ pc' = "glob_ignore"
             /\ UNCHANGED <<input, result, parse_or_vars, rule_vars, ignore_files,
                            exception_ignore_files, fs, f>>

\* line 155
GlobIgnoreRules ==
    /\ pc = "glob_ignore"
    /\ LET r == glob_rules(input.root, ignore_rules, fs) IN
        IF r.err # "" THEN Raised(Raise(r.err))
        ELSE /\ ignore_files' = r.val
             /\ pc' = "glob_exception"
             /\ UNCHANGED <<input, result, parse_or_vars, rule_vars, files,
                            exception_ignore_files, fs, f>>

\* line 156
GlobExceptionRules ==
    /\ pc = "glob_exception"
    /\ LET r == glob_rules(input.root, exception_ignore_rules, fs) IN
        IF r.err # "" THEN Raised(Raise(r.err))
        ELSE /\ exception_ignore_files' = r.val
             /\ pc' = "resolve"
             /\ UNCHANGED <<input, result, parse_or_vars, rule_vars, files,
                            ignore_files, fs, f>>

\* The lists that hold each element of a set once: the orders in which the
\* iteration of a set can give its elements.
Orders(S) ==
    {order \in [1..Cardinality(S) -> S] :
        \A i, j \in 1..Cardinality(S) : order[i] = order[j] => i = j}

\* lines 158-164: files is bound again to the list of the relative paths of
\* the files kept, in the order the set gives them, and its sorted copy is
\* returned; an exception of relative_to leaves files as it was.
FarGlobReturn ==
    /\ pc = "resolve"
    /\ LET r == Resolve(input.root, files, ignore_files, exception_ignore_files) IN
        IF r.err # "" THEN Raised(r)
        ELSE \E listing \in Orders({r.val[i] : i \in 1..Len(r.val)}) :
             /\ files' = listing
             /\ result' = Ok(Sorted({listing[i] : i \in 1..Len(listing)}))
             /\ pc' = "returned"
             /\ UNCHANGED <<input, parse_or_vars, rule_vars, ignore_files,
                            exception_ignore_files, fs, f>>

\* The tree of the specification's examples, under the home directory.
Tree == {"/home/u/a.txt", "/home/u/sub/b.txt", "/home/u/sub/c.log"}

Roots == {"/home/u", "~"}

IncludeRules == {"*", "*.txt", "/sub/**"}

IgnoreRules == {"sub/", "sub/c.log", "!sub/b.txt", "!*.txt"}

\* the lists of at most n elements of S
ListsUpTo(S, n) == UNION {[1..j -> S] : j \in 0..n}

\* A name one character longer than the kernel takes.
RECURSIVE Repeat(_, _)
Repeat(s, n) ==
    IF n = 0 THEN ""
    ELSE Repeat(s, n \div 2) \o Repeat(s, n \div 2) \o (IF n % 2 = 1 THEN s ELSE "")

LongName == Repeat("n", NameMax + 1)

\* Calls with a root not in normal form, a character class, a part "..", a
\* rule that is only ".", and names the kernel refuses.
GlobExamples ==
    {[root |-> "/home/u/", rules |-> <<"/[ab].txt">>, ignore_rules |-> <<>>],
     [root |-> "~/", rules |-> <<"*">>, ignore_rules |-> <<>>],
     [root |-> "/home/u/sub/..", rules |-> <<"/sub/../a.txt", "/a.txt">>,
      ignore_rules |-> <<"/a.txt">>],
     [root |-> "~nobody", rules |-> <<"*">>, ignore_rules |-> <<>>],
     [root |-> "/home/u", rules |-> <<"/.">>, ignore_rules |-> <<>>],
     [root |-> "/home/u", rules |-> <<"/" \o LongName>>, ignore_rules |-> <<>>],
     [root |-> "/home/u", rules |-> <<"*">>, ignore_rules |-> <<"sub/" \o LongName>>],
     [root |-> "~/" \o LongName, rules |-> <<"*">>, ignore_rules |-> <<>>]}

GlobInputs ==
    {[root |-> r, rules |-> rs, ignore_rules |-> irs] :
        r \in Roots,
        rs \in ListsUpTo(IncludeRules, GlobMaxInclude),
        irs \in ListsUpTo(IgnoreRules, GlobMaxIgnore)}
    \cup GlobExamples

NextFarGlob ==
    \/ ExceptionIgnore \/ ProcRules \/ ProcIgnoreRules \/ ProcExceptionRules
    \/ GlobRules \/ GlobIgnoreRules \/ GlobExceptionRules
    \/ FarGlobReturn

SpecFarGlob == InitFarGlob(GlobInputs, SUBSET Tree) /\ [][NextFarGlob]_vars

----------------------------------------------------------------------------
(* load_ignore_rules, line by line.                                        *)

\* The characters str.strip() removes and \s matches, among those used.
Whitespace == {" ", "\t", "\n", "\r", "\f"}

LStrip(s) ==
    LET solid == {i \in 1..Len(s) : Char(s, i) \notin Whitespace} IN
    IF solid = {} THEN "" ELSE From(s, Min(solid) - 1)

RStrip(s) ==
    LET solid == {i \in 1..Len(s) : Char(s, i) \notin Whitespace} IN
    IF solid = {} THEN "" ELSE SubSeq(s, 1, Max(solid))

\* line 103: line.strip()
Strip(s) == RStrip(LStrip(s))

\* lines 105-108 with the second test made on "#" anywhere in the line
SkipsHashAnywhere(line) ==
    \/ Len(line) >= 2 /\ SubSeq(line, 1, 2) = "//"
    \/ line = ""
    \/ HasSubstring(line, "#")

\* lines 105-108: the two tests that skip a stripped line; the regular
\* expression is optional whitespace from the start and then "#"
Skips(line) ==
    \/ Len(line) >= 2 /\ SubSeq(line, 1, 2) = "//"
    \/ line = ""
    \/ StartsWith(LStrip(line), "#")

LineChars == {" ", "#", "/", "!", "a"}

\* The file of the specification's example.
LoadExample == <<"  # comment", "", "//old-rule", "valid.txt">>

IgnoreFile == "/home/u/.farignore"

\* Paths that name the file otherwise, a directory, a place below a file, and
\* names the kernel refuses.
LoadPaths == {"/home/u/./.farignore", "~//.farignore", "/home/u/../u/.farignore",
              "../home/u/.farignore", "~", "~/.farignore/x", "~/.farignore/", "",
              "~/" \o LongName, "~/.missing/" \o LongName,
              "~/.farignore/" \o LongName}

LoadInputs ==
    {[file_path |-> "~/.farignore", lines |-> l] :
        l \in ListsOf(LineChars, LoadMaxLines, LoadMaxChars) \cup {LoadExample}}
    \cup {[file_path |-> "~/.missing", lines |-> <<>>]}
    \cup {[file_path |-> path, lines |-> <<"a">>] : path \in LoadPaths}

InitLoad ==
    /\ input \in LoadInputs
    /\ fs = {IgnoreFile}
    /\ pc = "open"
    /\ ignore_rules = <<>>
    /\ f = <<>>
    /\ result = Ok(<<>>)
    /\ rules_origin = <<>>
    /\ new_rules = <<>>
    /\ added_new_rule = FALSE
    /\ depth = 0
    /\ rules = <<>>
    /\ exception_ignore_rules = <<>>
    /\ files = {}
    /\ ignore_files = {}
    /\ exception_ignore_files = {}

\* line 101: open(expanduser(file_path), 'r'): the exception it raises, ""
\* when it opens a regular file.
Open(file_path, tree) ==
    LET at == Locate(OsExpandUser(file_path), tree) IN
    IF at = "ENOENT" THEN "FileNotFoundError"
    ELSE IF at = "ENOTDIR" THEN "NotADirectoryError"
    ELSE IF at = "ENAMETOOLONG" THEN "OSError"
    ELSE IF at \in tree THEN ""
    ELSE "IsADirectoryError"

\* lines 99-101 and 110-111: a file that does not exist raises
\* IgnoreFileError, every other failure of open its own exception
LoadOpen ==
    /\ pc = "open"
    /\ IF Open(input.file_path, fs) = ""
       THEN /\ f' = input.lines
            /\ pc' = "read"
            /\ UNCHANGED result
       ELSE /\ result' = Raise(IF Open(input.file_path, fs) = "FileNotFoundError"
                               THEN "IgnoreFileError"
                               ELSE Open(input.file_path, fs))
            /\ pc' = "raised"
            /\ UNCHANGED f
    /\ UNCHANGED <<input, parse_or_vars, far_glob_vars, fs>>

\* lines 102-109: one iteration of the loop
LoadLine ==
    /\ pc = "read"
    /\ f # <<>>
    /\ ignore_rules' = IF Skips(Strip(Head(f))) THEN ignore_rules
                       ELSE Append(ignore_rules, Strip(Head(f)))
    /\ f' = Tail(f)
    /\ UNCHANGED <<pc, input, result, parse_or_vars, rules, exception_ignore_rules,
                   file_vars, fs>>

\* line 113
LoadReturn ==
    /\ pc = "read"
    /\ f = <<>>
    /\ result' = Ok(ignore_rules)
    /\ pc' = "returned"
    /\ UNCHANGED <<input, parse_or_vars, far_glob_vars, fs, f>>

NextLoad == LoadOpen \/ LoadLine \/ LoadReturn

SpecLoad == InitLoad /\ [][NextLoad]_vars

----------------------------------------------------------------------------
(* Claims about proc and exception_ignore.                                 *)

\* The two head forms: a rule under the root gives itself without its "/",
\* a rule anywhere gives its directory expansion and then its prefixed form.
HeadForms(r) ==
    IF StartsWith(r, "/") THEN <<From(r, 1)>>
    ELSE <<"**/" \o r \o "/**/*", "**/" \o r>>

\* What proc is to return for a list of rules: the head forms of the
\* tail-rewritten rules, in the order the alternation expander gives them.
NormalForm(list, tail(_)) ==
    LET expanded == parse_or(list) IN
    Concat([i \in 1..Len(expanded) |-> HeadForms(tail(expanded[i]))])

\* The tail rewriting C2 states: "/**/" gets "*", "/**" gets "/*", "/" gets "**/*".
StatedTail(r) ==
    IF EndsWith(r, "/**/") THEN r \o "*"
    ELSE IF EndsWith(r, "/**") THEN r \o "/*"
    ELSE IF EndsWith(r, "/") THEN r \o "**/*"
    ELSE r

AlternationFree(list) == \A i \in 1..Len(list) : ~HasGroup(list[i])

\* C2: proc rewrites the tail of an alternation-free rule as stated: a rule
\* that ends with "/**/" gets "*" appended and a rule that ends with "/**"
\* gets "/*" appended, so that "/xx/**/" gives the one glob "xx/**/*", the
\* same as "/xx/" and "/xx/**".
C2_TailForms ==
    /\ pc = "proc_ignore" /\ AlternationFree(input.rules) =>
            rules = NormalForm(input.rules, StatedTail)
    /\ pc = "proc_exception" /\ AlternationFree(PlainRules(input.ignore_rules)) =>
            ignore_rules = NormalForm(PlainRules(input.ignore_rules), StatedTail)
    /\ pc = "proc_ignore" /\ input.rules \in {<<"/xx/">>, <<"/xx/**">>, <<"/xx/**/">>} =>
            rules = <<"xx/**/*">>

\* C3: every list proc returns is the concatenation, in the order of the rules
\* the alternation expander gives, of the head forms of the tail-rewritten
\* rules: one glob for a rule that starts with "/", the rule without it; two
\* globs otherwise, the directory expansion first; "/xx.sh" gives "xx.sh" alone.
C3_HeadForms ==
    /\ pc = "proc_ignore" => rules = NormalForm(input.rules, TailRewrite)
    /\ pc = "proc_exception" =>
            ignore_rules = NormalForm(PlainRules(input.ignore_rules), TailRewrite)
    /\ pc = "glob_rules" =>
            exception_ignore_rules =
                NormalForm(ExceptionRules(input.ignore_rules), TailRewrite)
    /\ pc = "proc_ignore" /\ input.rules = <<"/xx.sh">> => rules = <<"xx.sh">>

C3_Witness ==
    /\ pc = "proc_exception"
    /\ Len(input.ignore_rules) = 2
    /\ StartsWith(input.ignore_rules[1], "/")
    /\ ~StartsWith(input.ignore_rules[2], "/")
    /\ HasGroup(input.ignore_rules[2])
    /\ Len(ignore_rules) = 5

\* C10: the split of the ignore rules followed by proc never raises, whatever
\* the rules are, the empty rule and the rule "!" included.
C10_Total == pc # "raised" /\ result.err = ""

----------------------------------------------------------------------------
(* Claims about far_glob.                                                  *)

\* The path of a file relative to the root once "~" is resolved.
Rel(file) == From(file, Len(ExpandUser(input.root).val) + 1)

Listing == {result.val[i] : i \in 1..Len(result.val)}

\* The files of the filesystem a list of normalized globs matches.
Matched(globs) == UNION {Glob(ExpandUser(input.root).val, globs[i], fs) : i \in 1..Len(globs)}

\* C1: the files far_glob returns are the files matched by the include globs
\* and not by the ignore globs, together with the files matched by the include,
\* the ignore and the exception globs: no file that is not included is
\* returned, and every included file that is ignored and excepted is; with the
\* ignore rules "sub/" and "!sub/b.txt" every file of the example tree but
\* sub/c.log is returned.
C1_SetAlgebra ==
    pc = "returned" =>
        LET Included == Matched(rules)
            Ignored == Matched(ignore_rules)
            ExceptionIgnored == Matched(exception_ignore_rules)
        IN  /\ Listing = {Rel(x) : x \in (Included \ Ignored) \cup
                                ((Included \cap Ignored) \cap ExceptionIgnored)}
            /\ \A x \in fs : Rel(x) \in Listing => x \in Included
            /\ \A x \in (Included \cap Ignored) \cap ExceptionIgnored : Rel(x) \in Listing
            /\ (input = [root |-> Home, rules |-> <<"*">>,
                         ignore_rules |-> <<"sub/", "!sub/b.txt">>] /\ fs = Tree) =>
                    result.val = <<"a.txt", "sub/b.txt">>

C1_Witness ==
    /\ pc = "returned"
    /\ fs = Tree
    /\ Matched(rules) = Tree
    /\ files \in Orders({"a.txt", "sub/b.txt"})
    /\ ignore_files = {"/home/u/sub/b.txt", "/home/u/sub/c.log"}
    /\ exception_ignore_files = {"/home/u/sub/b.txt"}
    /\ result.val = <<"a.txt", "sub/b.txt">>

\* C6: the list far_glob returns is in strictly ascending order of its path
\* strings, so that it is sorted and holds no path twice.
C6_SortedNoDuplicates ==
    pc = "returned" =>
        \A i \in 1..(Len(result.val) - 1) : StrLess(result.val[i], result.val[i + 1])

\* an anywhere rule whose two globs both match a file of a listing of three
C6_Witness ==
    /\ pc = "returned"
    /\ Len(result.val) = 3
    /\ Len(rules) = 2
    /\ \E x \in fs : \A i \in 1..2 : x \in Glob(ExpandUser(input.root).val, rules[i], fs)

\* C7: called with a root written with "~", far_glob ends as it ends when
\* called with the root already expanded: the same list, and no failure.
C7_TildeRoot ==
    pc \in {"returned", "raised"} /\ StartsWith(input.root, "~")
        /\ ExpandUser(input.root).err = "" =>
        result = far_glob(ExpandUser(input.root).val, input.rules, input.ignore_rules, fs)

----------------------------------------------------------------------------
(* Claims about load_ignore_rules.                                         *)

\* A trimmed line load_ignore_rules is to keep.
Kept(line) == line # "" /\ ~StartsWith(line, "//") /\ ~StartsWith(line, "#")

Trimmed(lines) == [i \in 1..Len(lines) |-> Strip(lines[i])]

\* C8: load_ignore_rules returns, in file order and unchanged, the trimmed
\* lines that are not empty and start neither with "//" nor with "#"; while it
\* reads, the rules gathered are those of the lines read; the file of the
\* example gives "valid.txt" alone.
C8_KeptLines ==
    /\ pc = "read" =>
            ignore_rules = SelectSeq(Trimmed(SubSeq(input.lines, 1, Len(input.lines) - Len(f))), Kept)
    /\ pc = "returned" => result.val = SelectSeq(Trimmed(input.lines), Kept)
    /\ pc = "returned" /\ input.lines = LoadExample => result.val = <<"valid.txt">>

C8_Witness ==
    /\ pc = "returned"
    /\ Len(input.lines) = 2
    /\ Len(result.val) = 1
    /\ StartsWith(result.val[1], "!")
    /\ HasSubstring(result.val[1], "#")

====
